---- MODULE Spec2Model ----
(***************************************************************************)
(* Model of the multi-reposter scripts (three variants of one script):     *)
(*   grovel : src/multi_reposter_grovel4maeve.py                           *)
(*   luana  : src/multi_reposter_luanablack2.py                            *)
(*   naked  : src/multi_reposter_nakedneighbour1985.py                     *)
(* A feed item is an object; the model names an object by its position in  *)
(* the fetched feed (feedRaw), which plays the part of Python's id().      *)
(* A type tag ("app.bsky.embed.images#view") is the sequence of its        *)
(* tokens, split at '.' and '#'; Python's `needle in tag` is containment   *)
(* of the needle's tokens as a contiguous run.                             *)
(***************************************************************************)
EXTENDS Integers, Sequences, FiniteSets, TLC

VARIABLES
    variant,     \* which script runs
    pc,          \* position of the running script
    targetSet,   \* whether a target handle is configured
    acct,        \* index of the account being processed (into ACCOUNT_KEYS)
    visited,     \* labels of the accounts process_account was called for
    skipped,     \* labels of the accounts that returned before filtering
    feedRaw,     \* the feed as fetched (the heap of feed item objects)
    feedPosts,   \* the filtered candidates: references into feedRaw
    selected,    \* choose_posts_for_run's result
    ordered,     \* the list the synchronization loop iterates
    pos,         \* loop index (filter loop, then synchronization loop)
    numOlder,    \* num_random_older
    session,     \* login and fetch calls of this account run, in order
    created,     \* posts on which repost() was called in this account run
    calls,       \* mutation calls of the running (or last) synchronize call
    anyFailed,   \* whether a mutation call failed in this account run
    repostRecs,  \* the account's active repost records on the current post
    likeRecs,    \* the account's active like records on the current post
    resOrig,     \* last result of the is-original test
    resMedia     \* last result of has_media

vars == <<variant, pc, targetSet, acct, visited, skipped, feedRaw, feedPosts,
          selected, ordered, pos, numOlder, session, created, calls, anyFailed,
          repostRecs, likeRecs, resOrig, resMedia>>

----------------------------------------------------------------------------
(* Bounds of the model *)

MaxFeed == 2        \* longest feed fetched in the pipeline
MaxCand == 4        \* most candidates in the selection specification
MaxOlder == 3       \* largest num_random_older in the selection specification
MaxImages == 2      \* longest images list of an embed
NumAccounts == 2    \* how many entries of ACCOUNT_KEYS are run

(* Program constants *)

NumRandomOlder == 2     \* num_random_older=2 at every call site
UnknownIndex == 9999    \* index_map.get(id(fp), 9999)

Variants == {"grovel", "luana", "naked"}

----------------------------------------------------------------------------
(* Type tags and Python string operations on them *)

TagEmpty == << >>
TagImagesView == <<"app", "bsky", "embed", "images", "view">>
TagVideoView == <<"app", "bsky", "embed", "video", "view">>
TagRecordWithMediaView == <<"app", "bsky", "embed", "recordWithMedia", "view">>
TagExternalView == <<"app", "bsky", "embed", "external", "view">>
TagPost == <<"app", "bsky", "feed", "post">>
TagReasonRepost == <<"app", "bsky", "feed", "defs", "reasonRepost">>
TagReasonPin == <<"app", "bsky", "feed", "defs", "reasonPin">>

\* needle in hay
Contains(needle, hay) ==
    \E i \in 0..(Len(hay) - Len(needle)) :
        SubSeq(hay, i + 1, i + Len(needle)) = needle

LowerToken(t) ==
    CASE t = "recordWithMedia" -> "recordwithmedia"
      [] t = "reasonRepost" -> "reasonrepost"
      [] t = "reasonPin" -> "reasonpin"
      [] OTHER -> t

\* tag.lower()
Lower(tag) == [i \in 1..Len(tag) |-> LowerToken(tag[i])]

\* a or b, on strings
StrOr(a, b) == IF a # TagEmpty THEN a ELSE b

----------------------------------------------------------------------------
(* Data model: what the scripts read of a feed item *)

TargetHandle == "target.bsky.social"
OtherHandle == "other.bsky.social"
NoHandle == ""

NoEmbed == [none |-> TRUE]
NoReason == [none |-> TRUE]
NoRecord == [none |-> TRUE]

\* One type tag held in one of the attributes py_type, _type, $type.
TypeAttrs(tag) ==
    { [py_type |-> tag, u_type |-> TagEmpty, d_type |-> TagEmpty],
      [py_type |-> TagEmpty, u_type |-> tag, d_type |-> TagEmpty],
      [py_type |-> TagEmpty, u_type |-> TagEmpty, d_type |-> tag] }

EmbedTags == {TagEmpty, TagImagesView, TagVideoView, TagRecordWithMediaView,
              TagExternalView}

TypeChoices == UNION { TypeAttrs(t) : t \in EmbedTags }

\* images: -1 no such attribute, otherwise the length of the list
MkEmbed(ty, n, m) ==
    [py_type |-> ty.py_type, u_type |-> ty.u_type, d_type |-> ty.d_type,
     images |-> n, media |-> m]

LeafEmbeds ==
    { MkEmbed(ty, n, NoEmbed) : ty \in TypeChoices, n \in {-1, 0, MaxImages} }

WrapEmbeds ==
    { MkEmbed(ty, n, m) : ty \in TypeChoices, n \in {-1, 0}, m \in LeafEmbeds }

AllEmbeds == {NoEmbed} \cup LeafEmbeds \cup WrapEmbeds

MkRecord(ty, t) ==
    [py_type |-> ty.py_type, u_type |-> ty.u_type, d_type |-> ty.d_type,
     created_at |-> t]

MkPost(h, rec, emb, idx, rp, lk) ==
    [handle |-> h, record |-> rec, embed |-> emb, indexed_at |-> idx,
     viewer |-> [repost |-> rp, like |-> lk]]

MkItem(rs, p) == [reason |-> rs, post |-> p]

----------------------------------------------------------------------------
(* PostClassifier *)

\* grovel's nested is_media(e)
RECURSIVE IsMedia(_)
IsMedia(e) ==
    IF e = NoEmbed THEN FALSE
    ELSE LET t == Lower(StrOr(StrOr(e.d_type, e.u_type), TagEmpty))
         IN  IF Contains(<<"images">>, t) \/ Contains(<<"video">>, t) THEN TRUE
             ELSE IF e.images > 0 THEN TRUE
             ELSE e.media # NoEmbed /\ IsMedia(e.media)

HasMediaGrovel(pv) ==
    IF pv.embed = NoEmbed THEN FALSE ELSE IsMedia(pv.embed)

HasMediaLuana(pv) ==
    LET embed == pv.embed
    IN  IF embed = NoEmbed THEN FALSE
        ELSE IF embed.images > 0 THEN TRUE
        ELSE IF embed.media # NoEmbed /\ embed.media.images > 0 THEN TRUE
        ELSE FALSE

HasMediaNaked(pv) ==
    LET embed == pv.embed
    IN  IF embed = NoEmbed THEN FALSE
        ELSE LET etype == StrOr(StrOr(embed.py_type, embed.u_type), TagEmpty)
             IN  Contains(<<"embed", "images">>, etype)
                   \/ Contains(<<"embed", "video">>, etype)

HasMedia(v, pv) ==
    CASE v = "grovel" -> HasMediaGrovel(pv)
      [] v = "luana" -> HasMediaLuana(pv)
      [] v = "naked" -> HasMediaNaked(pv)

\* grovel tests these inline in filter_valid_posts
IsOwnOriginalGrovel(item, actor) ==
    LET handle == item.post.handle
    IN  IF handle # NoHandle /\ handle # actor THEN FALSE
        ELSE IF item.reason # NoReason THEN FALSE
        ELSE TRUE

IsOwnOriginalLuana(item, actor) ==
    LET handle == item.post.handle
        reason_type == IF item.reason # NoReason THEN item.reason.d_type
                       ELSE TagEmpty
    IN  IF handle # NoHandle /\ handle # actor THEN FALSE
        ELSE IF Contains(<<"reasonRepost">>, reason_type) THEN FALSE
        ELSE TRUE

IsOriginalPostNaked(pv) ==
    LET record == pv.record
        rtype == IF record = NoRecord THEN TagEmpty
                 ELSE StrOr(StrOr(StrOr(record.py_type, record.u_type),
                                  record.d_type), TagEmpty)
    IN  Contains(TagPost, rtype)

IsOriginal(v, item, actor) ==
    CASE v = "grovel" -> IsOwnOriginalGrovel(item, actor)
      [] v = "luana" -> IsOwnOriginalLuana(item, actor)
      [] v = "naked" -> IsOriginalPostNaked(item.post)

\* valid.append(item)
FilterKeepFront(valid, ref) == <<ref>> \o valid
FilterKeep(valid, ref) == Append(valid, ref)

----------------------------------------------------------------------------
(* PostSelector *)

Min(a, b) == IF a < b THEN a ELSE b

\* The outcomes of random.sample(older, k): k distinct positions, any order.
Sample(older, k) ==
    { [i \in 1..k |-> older[p[i]]] :
        p \in { q \in [1..k -> 1..Len(older)] :
                  \A i, j \in 1..k : i # j => q[i] # q[j] } }

\* The outcomes of choose_posts_for_run(feed_posts, num_random_older)
ChooseFromWholeFeed(feed, n) ==
    IF feed = << >> THEN { << >> }
    ELSE { <<feed[1]>> \o r : r \in Sample(feed, Min(n, Len(feed))) }
ChoosePostsForRun(feed, n) ==
    IF feed = << >> THEN { << >> }
    ELSE LET newest == feed[1]
             older == Tail(feed)
         IN  IF older # << >>
             THEN { <<newest>> \o random_older :
                      random_older \in Sample(older, Min(n, Len(older))) }
             ELSE { <<newest>> }

----------------------------------------------------------------------------
(* OrderingPolicy *)

RemoveAt(s, i) == SubSeq(s, 1, i - 1) \o SubSeq(s, i + 1, Len(s))

\* list.sort / sorted: stable, ascending by keys[i] (descending, and still
\* stable, with reverse=True)
RECURSIVE StableSort(_, _, _)
StableSort(s, keys, reverse) ==
    IF s = << >> THEN << >>
    ELSE LET best == CHOOSE i \in 1..Len(s) :
                        /\ \A j \in 1..Len(s) :
                              IF reverse THEN keys[j] <= keys[i]
                                         ELSE keys[i] <= keys[j]
                        /\ \A j \in 1..(i - 1) : keys[j] # keys[i]
         IN  <<s[best]>> \o StableSort(RemoveAt(s, best), RemoveAt(keys, best), reverse)

\* index_map[id(fp)], or 9999: the 0-based index of the object in the feed
FeedIndex(full, ref) ==
    IF \E i \in 1..Len(full) : full[i] = ref
    THEN (CHOOSE i \in 1..Len(full) :
             full[i] = ref /\ \A j \in (i + 1)..Len(full) : full[j] # ref) - 1
    ELSE UnknownIndex

\* grovel: order_posts_old_to_new(selected_posts, full_feed_posts)
OrderPostsNewToOld(sel, full) ==
    StableSort(sel, [i \in 1..Len(sel) |-> FeedIndex(full, sel[i])], FALSE)
OrderPostsOldToNew(sel, full) ==
    StableSort(sel, [i \in 1..Len(sel) |-> FeedIndex(full, sel[i])], TRUE)

\* luana: get_post_timestamp(feed_post); 0 is the empty string
GetPostTimestamp(item) ==
    LET record == item.post.record
        created_at == IF record = NoRecord THEN 0 ELSE record.created_at
    IN  IF created_at # 0 THEN created_at ELSE item.post.indexed_at

\* luana: sorted(to_repost, key=get_post_timestamp)
SortedByTimestamp(sel, heap) ==
    StableSort(sel, [i \in 1..Len(sel) |-> GetPostTimestamp(heap[sel[i]])], FALSE)

\* naked: sort_posts_old_to_new(feed_posts), by indexed_at
SortPostsOldToNew(sel, heap) ==
    StableSort(sel, [i \in 1..Len(sel) |-> heap[sel[i]].post.indexed_at], FALSE)

Order(v, sel, full, heap) ==
    CASE v = "grovel" -> OrderPostsOldToNew(sel, full)
      [] v = "luana" -> SortedByTimestamp(sel, heap)
      [] v = "naked" -> SortPostsOldToNew(sel, heap)

----------------------------------------------------------------------------
(* Feed items the specifications draw from *)

PostRecord(t) == MkRecord([py_type |-> TagPost, u_type |-> TagEmpty,
                           d_type |-> TagEmpty], t)
ImagesEmbed == MkEmbed([py_type |-> TagImagesView, u_type |-> TagEmpty,
                        d_type |-> TagEmpty], MaxImages, NoEmbed)
RepostReason == [py_type |-> TagReasonRepost, d_type |-> TagEmpty]

\* An original media post of the target, as the SDK delivers it.
GoodItem(t, idx, rp, lk) ==
    MkItem(NoReason, MkPost(TargetHandle, PostRecord(t), ImagesEmbed, idx, rp, lk))
\* A text-only post of the target.
TextItem(t, idx, rp, lk) ==
    MkItem(NoReason, MkPost(TargetHandle, PostRecord(t), NoEmbed, idx, rp, lk))
\* A media post of another author, reshared by the target.
ReshareItem(t, idx, rp, lk) ==
    MkItem(RepostReason, MkPost(OtherHandle, PostRecord(t), ImagesEmbed, idx, rp, lk))

Reasons ==
    {NoReason} \cup
    UNION { { [py_type |-> t, d_type |-> TagEmpty], [py_type |-> TagEmpty, d_type |-> t] } :
              t \in {TagReasonRepost, TagReasonPin} }
Records == {NoRecord} \cup { MkRecord(ty, 1) : ty \in TypeAttrs(TagPost) }
Handles == {NoHandle, TargetHandle, OtherHandle}

\* Every header with a few embeds, and every embed with a few headers.
ClassifyItems ==
    { MkItem(rs, MkPost(h, rec, emb, 1, 0, 0)) :
        rs \in Reasons, h \in Handles, rec \in Records,
        emb \in {NoEmbed, ImagesEmbed} }
    \cup
    { MkItem(NoReason, MkPost(h, PostRecord(1), emb, 1, 0, 0)) :
        h \in {TargetHandle, NoHandle}, emb \in AllEmbeds }

CuratedItems == {GoodItem(1, 1, 0, 0), TextItem(1, 1, 0, 0), ReshareItem(1, 1, 0, 0)}

SeqsUpTo(S, n) == UNION { [1..k -> S] : k \in 0..n }

ClassifyFeeds ==
    { <<it>> : it \in ClassifyItems } \cup SeqsUpTo(CuratedItems, MaxFeed + 1)

NoResult == [ref |-> 0, val |-> FALSE]

----------------------------------------------------------------------------
(* The filtering loop of filter_valid_posts / fetch_recent_posts, one test  *)
(* per step.  pos is the loop index.                                        *)

TestOriginal ==
    /\ pc = "filter"
    /\ pos <= Len(feedRaw)
    /\ LET ok == IsOriginal(variant, feedRaw[pos], TargetHandle)
       IN  /\ resOrig' = [ref |-> pos, val |-> ok]
           /\ IF ok THEN pc' = "filter_media" /\ pos' = pos
                    ELSE pc' = "filter" /\ pos' = pos + 1
    /\ UNCHANGED <<variant, targetSet, acct, visited, skipped, feedRaw,
                   feedPosts, selected, ordered, numOlder, session, created,
                   calls, anyFailed, repostRecs, likeRecs, resMedia>>

TestMedia ==
    /\ pc = "filter_media"
    /\ LET ok == HasMedia(variant, feedRaw[pos].post)
       IN  /\ resMedia' = [ref |-> pos, val |-> ok]
           /\ feedPosts' = IF ok THEN FilterKeep(feedPosts, pos) ELSE feedPosts
    /\ pc' = "filter"
    /\ pos' = pos + 1
    /\ UNCHANGED <<variant, targetSet, acct, visited, skipped, feedRaw,
                   selected, ordered, numOlder, session, created, calls,
                   anyFailed, repostRecs, likeRecs, resOrig>>

FilterDone ==
    /\ pc = "filter"
    /\ pos > Len(feedRaw)
    /\ pc' = "filtered"
    /\ UNCHANGED <<variant, targetSet, acct, visited, skipped, feedRaw,
                   feedPosts, selected, ordered, pos, numOlder, session,
                   created, calls, anyFailed, repostRecs, likeRecs, resOrig,
                   resMedia>>

----------------------------------------------------------------------------
(* Selection and ordering steps of process_account *)

Choose ==
    /\ pc = "choose"
    /\ \E s \in ChoosePostsForRun(feedPosts, numOlder) : selected' = s
    /\ pc' = "order"
    /\ UNCHANGED <<variant, targetSet, acct, visited, skipped, feedRaw,
                   feedPosts, ordered, pos, numOlder, session, created, calls,
                   anyFailed, repostRecs, likeRecs, resOrig, resMedia>>

\* grovel returns before ordering when nothing was selected
OrderStep ==
    /\ pc = "order"
    /\ IF variant = "grovel" /\ selected = << >>
       THEN pc' = "next_account" /\ ordered' = ordered
       ELSE pc' = "loop" /\ ordered' = Order(variant, selected, feedPosts, feedRaw)
    /\ pos' = 1
    /\ UNCHANGED <<variant, targetSet, acct, visited, skipped, feedRaw,
                   feedPosts, selected, numOlder, session, created, calls,
                   anyFailed, repostRecs, likeRecs, resOrig, resMedia>>

----------------------------------------------------------------------------
(* Specification of the classifier: any one feed item, or a short feed *)

InitCommon ==
    /\ acct = 1
    /\ visited = << >>
    /\ skipped = {}
    /\ anyFailed = FALSE
    /\ ordered = << >>
    /\ pos = 1
    /\ session = << >>
    /\ created = << >>
    /\ calls = << >>
    /\ repostRecs = {}
    /\ likeRecs = {}
    /\ resOrig = NoResult
    /\ resMedia = NoResult

InitClassify ==
    /\ targetSet = TRUE
    /\ variant \in Variants
    /\ feedRaw \in ClassifyFeeds
    /\ pc = "filter"
    /\ feedPosts = << >>
    /\ selected = << >>
    /\ numOlder = NumRandomOlder
    /\ InitCommon

NextClassify == TestOriginal \/ TestMedia \/ FilterDone

SpecClassify == InitClassify /\ [][NextClassify]_vars

----------------------------------------------------------------------------
(* Specifications of the selector and of the ordering policy.  The         *)
(* candidates are any duplicate-free list of objects, so an object's name  *)
(* says nothing about its index.                                           *)

Range(s) == { s[i] : i \in 1..Len(s) }
NoDup(s) == \A i, j \in 1..Len(s) : i # j => s[i] # s[j]
DistinctSeqs(S) == { s \in SeqsUpTo(S, Cardinality(S)) : NoDup(s) }

CandidateLists == DistinctSeqs(1..MaxCand)
DefaultHeap == [i \in 1..MaxCand |-> GoodItem(1, 1, 0, 0)]

InitSelect ==
    /\ targetSet = TRUE
    /\ variant = "grovel"
    /\ feedRaw = DefaultHeap
    /\ feedPosts \in CandidateLists
    /\ numOlder \in 0..MaxOlder
    /\ selected = << >>
    /\ pc = "choose"
    /\ InitCommon

NextSelect == Choose \/ OrderStep

SpecSelect == InitSelect /\ [][NextSelect]_vars

\* order_posts_old_to_new on any duplicate-free part of the candidates,
\* given in any order
InitOrder ==
    /\ targetSet = TRUE
    /\ variant = "grovel"
    /\ feedRaw = DefaultHeap
    /\ feedPosts \in CandidateLists
    /\ numOlder = NumRandomOlder
    /\ selected \in DistinctSeqs(Range(feedPosts))
    /\ pc = "order"
    /\ InitCommon

NextOrder == OrderStep

SpecOrder == InitOrder /\ [][NextOrder]_vars

----------------------------------------------------------------------------
(* EngagementSynchronizer: one call per post of the ordered selection.      *)
(* A record of the platform is named by a number; the records a feed item's *)
(* viewer state reports are record 1, new records get larger numbers.       *)

Call(op, ref, arg, ok) == [op |-> op, ref |-> ref, arg |-> arg, ok |-> ok]

CurRef == ordered[pos]
CurPost == feedRaw[ordered[pos]].post
NewRec == Len(calls) + 2

\* after reading the viewer state: `if repost_uri:`, then luana's `if like_uri:`
AfterDeleteRepost(v, pv) ==
    IF v = "luana" /\ pv.viewer.like # 0 THEN "del_like" ELSE "repost"
\* a variant in which a failed delete_repost leaves the call
AbortOnFailedDelete(v, pv, ok) ==
    IF ok THEN AfterDeleteRepost(v, pv) ELSE "loop"
\* `except Exception` after delete_repost: log, then go on
AfterDeleteRepostResult(v, pv, ok) == AfterDeleteRepost(v, pv)
\* a variant in which a failed repost() is tried again
RetryRepost == "repost"
\* a variant in which a failed repost() ends the account run
LeaveLoopOnFailedRepost == "next_account"
\* `except Exception` after repost(): log, then leave the call
AfterRepostFails == "loop"
FirstStepAlwaysDelete(v, pv) == "del_repost"
\* a variant in which the old repost is deleted after the new one is created
DeleteAfterCreate(v, pv) == IF v = "grovel" THEN "loop" ELSE "del_repost"
FirstStep(v, pv) ==
    IF pv.viewer.repost # 0 THEN "del_repost" ELSE AfterDeleteRepost(v, pv)

\* what follows a successful repost(): nothing, like(), or naked's ensure_like
AfterRepostOk(v, pv) ==
    CASE v = "grovel" -> "loop"
      [] v = "luana" -> "like"
      [] v = "naked" -> IF pv.viewer.like # 0 THEN "loop" ELSE "like"

\* The viewer state of a fetched post names the account's record, if any.
ViewerRecs(uri) == IF uri # 0 THEN {uri} ELSE {}

SyncStart ==
    /\ pc = "loop"
    /\ pos <= Len(ordered)
    /\ calls' = << >>
    /\ repostRecs' = ViewerRecs(CurPost.viewer.repost)
    /\ likeRecs' = ViewerRecs(CurPost.viewer.like)
    /\ pc' = FirstStep(variant, CurPost)
    /\ UNCHANGED <<variant, targetSet, acct, visited, skipped, feedRaw,
                   feedPosts, selected, ordered, pos, numOlder, session,
                   created, anyFailed, resOrig, resMedia>>

\* a variant in which delete_repost is handed the like URI
RepostUriFromLike(pv) == pv.viewer.like
\* repost_uri = getattr(viewer, "repost", None)
RepostUri(pv) == pv.viewer.repost
\* like_uri = getattr(viewer, "like", None)
LikeUri(pv) == pv.viewer.like

DeleteRepost(ok) ==
    /\ pc = "del_repost"
    /\ calls' = Append(calls, Call("delete_repost", CurRef, RepostUri(CurPost), ok))
    /\ repostRecs' = IF ok THEN repostRecs \ {RepostUri(CurPost)} ELSE repostRecs
    /\ anyFailed' = (anyFailed \/ ~ok)
    /\ LET nxt == AfterDeleteRepostResult(variant, CurPost, ok)
       IN  /\ pc' = nxt
           /\ pos' = IF nxt = "loop" THEN pos + 1 ELSE pos
    /\ UNCHANGED <<variant, targetSet, acct, visited, skipped, feedRaw,
                   feedPosts, selected, ordered, numOlder, session, created,
                   likeRecs, resOrig, resMedia>>

DeleteRepostOk == DeleteRepost(TRUE)
DeleteRepostFails == DeleteRepost(FALSE)

DeleteLike(ok) ==
    /\ pc = "del_like"
    /\ calls' = Append(calls, Call("delete_like", CurRef, LikeUri(CurPost), ok))
    /\ likeRecs' = IF ok THEN likeRecs \ {LikeUri(CurPost)} ELSE likeRecs
    /\ anyFailed' = (anyFailed \/ ~ok)
    /\ pc' = "repost"
    /\ UNCHANGED <<variant, targetSet, acct, visited, skipped, feedRaw,
                   feedPosts, selected, ordered, pos, numOlder, session,
                   created, repostRecs, resOrig, resMedia>>

DeleteLikeOk == DeleteLike(TRUE)
DeleteLikeFails == DeleteLike(FALSE)

RepostOk ==
    /\ pc = "repost"
    /\ calls' = Append(calls, Call("repost", CurRef, CurRef, TRUE))
    /\ created' = Append(created, CurRef)
    /\ repostRecs' = repostRecs \cup {NewRec}
    /\ LET nxt == AfterRepostOk(variant, CurPost)
       IN  /\ pc' = nxt
           /\ pos' = IF nxt = "loop" THEN pos + 1 ELSE pos
    /\ UNCHANGED <<variant, targetSet, acct, visited, skipped, feedRaw,
                   feedPosts, selected, ordered, numOlder, session, anyFailed,
                   likeRecs, resOrig, resMedia>>

RepostFails ==
    /\ pc = "repost"
    /\ calls' = Append(calls, Call("repost", CurRef, CurRef, FALSE))
    /\ created' = Append(created, CurRef)
    /\ anyFailed' = TRUE
    /\ pc' = AfterRepostFails
    /\ pos' = IF AfterRepostFails = "loop" THEN pos + 1 ELSE pos
    /\ UNCHANGED <<variant, targetSet, acct, visited, skipped, feedRaw,
                   feedPosts, selected, ordered, numOlder, session,
                   repostRecs, likeRecs, resOrig, resMedia>>

Like(ok) ==
    /\ pc = "like"
    /\ calls' = Append(calls, Call("like", CurRef, CurRef, ok))
    /\ likeRecs' = IF ok THEN likeRecs \cup {NewRec} ELSE likeRecs
    /\ anyFailed' = (anyFailed \/ ~ok)
    /\ pc' = "loop"
    /\ pos' = pos + 1
    /\ UNCHANGED <<variant, targetSet, acct, visited, skipped, feedRaw,
                   feedPosts, selected, ordered, numOlder, session, created,
                   repostRecs, resOrig, resMedia>>

LikeOk == Like(TRUE)
LikeFails == Like(FALSE)

Synchronize ==
    \/ SyncStart
    \/ DeleteRepostOk \/ DeleteRepostFails
    \/ DeleteLikeOk \/ DeleteLikeFails
    \/ RepostOk \/ RepostFails
    \/ LikeOk \/ LikeFails

----------------------------------------------------------------------------
(* AccountRunner: main and process_account *)

\* (created_at, indexed_at) of a fetched post; 0 is a missing timestamp
TimePairs == {<<0, 1>>, <<1, 2>>, <<2, 1>>}
ViewerUris == {0, 1}

\* Ordering reads only the timestamps and synchronize only the viewer state,
\* so the fetched posts vary the one with the other held fixed.
PipelineItems ==
    { GoodItem(t[1], t[2], 0, 0) : t \in TimePairs }
    \cup { GoodItem(1, 2, rp, lk) : rp \in ViewerUris, lk \in ViewerUris }
    \cup {TextItem(1, 1, 0, 0), ReshareItem(1, 1, 0, 0)}

PipelineFeeds == SeqsUpTo(PipelineItems, MaxFeed)

\* a variant in which an early return of process_account ends the run
EndRunOnEarlyReturn == "done"
\* a variant in which process_account goes on after a failed step
ContinueAfterEarlyReturn == "fetch"
\* where process_account's early `return` leads: back to main's loop
AfterEarlyReturn == "next_account"

\* get_target_handle: `if not handle:` (grovel reads the environment, the
\* others hold a constant)
GetTargetHandleNeverFails(isSet) == FALSE
GetTargetHandleFails(isSet) == ~isSet

TargetHandleMissing ==
    /\ pc = "main"
    /\ GetTargetHandleFails(targetSet)
    /\ pc' = "fatal"
    /\ UNCHANGED <<variant, targetSet, acct, visited, skipped, feedRaw,
                   feedPosts, selected, ordered, pos, numOlder, session,
                   created, calls, anyFailed, repostRecs, likeRecs, resOrig,
                   resMedia>>

MainStart ==
    /\ pc = "main"
    /\ ~GetTargetHandleFails(targetSet)
    /\ pc' = "next_account"
    /\ UNCHANGED <<variant, targetSet, acct, visited, skipped, feedRaw,
                   feedPosts, selected, ordered, pos, numOlder, session,
                   created, calls, anyFailed, repostRecs, likeRecs, resOrig,
                   resMedia>>

\* for label in ACCOUNT_KEYS: process_account(label, target_handle)
NextAccount ==
    /\ pc = "next_account"
    /\ Len(visited) < NumAccounts
    /\ acct' = Len(visited) + 1
    /\ visited' = Append(visited, Len(visited) + 1)
    /\ pc' = "login"
    /\ feedRaw' = << >>
    /\ feedPosts' = << >>
    /\ selected' = << >>
    /\ ordered' = << >>
    /\ pos' = 1
    /\ session' = << >>
    /\ created' = << >>
    /\ calls' = << >>
    /\ anyFailed' = FALSE
    /\ repostRecs' = {}
    /\ likeRecs' = {}
    /\ resOrig' = NoResult
    /\ resMedia' = NoResult
    /\ UNCHANGED <<variant, targetSet, skipped, numOlder>>

MainDone ==
    /\ pc = "next_account"
    /\ Len(visited) = NumAccounts
    /\ pc' = "done"
    /\ UNCHANGED <<variant, targetSet, acct, visited, skipped, feedRaw,
                   feedPosts, selected, ordered, pos, numOlder, session,
                   created, calls, anyFailed, repostRecs, likeRecs, resOrig,
                   resMedia>>

\* get_client_for_account: no username or no password in the environment
SkipNoCredentials ==
    /\ pc = "login"
    /\ skipped' = skipped \cup {acct}
    /\ pc' = AfterEarlyReturn
    /\ UNCHANGED <<variant, targetSet, acct, visited, feedRaw, feedPosts,
                   selected, ordered, pos, numOlder, session, created, calls,
                   anyFailed, repostRecs, likeRecs, resOrig, resMedia>>

Login(ok) ==
    /\ pc = "login"
    /\ session' = Append(session, Call("login", 0, 0, ok))
    /\ skipped' = IF ok THEN skipped ELSE skipped \cup {acct}
    /\ pc' = IF ok THEN "fetch" ELSE AfterEarlyReturn
    /\ UNCHANGED <<variant, targetSet, acct, visited, feedRaw, feedPosts,
                   selected, ordered, pos, numOlder, created, calls,
                   anyFailed, repostRecs, likeRecs, resOrig, resMedia>>

LoginOk == Login(TRUE)
LoginFails == Login(FALSE)

FetchFails ==
    /\ pc = "fetch"
    /\ session' = Append(session, Call("get_author_feed", 0, 0, FALSE))
    /\ skipped' = skipped \cup {acct}
    /\ pc' = AfterEarlyReturn
    /\ UNCHANGED <<variant, targetSet, acct, visited, feedRaw, feedPosts,
                   selected, ordered, pos, numOlder, created, calls,
                   anyFailed, repostRecs, likeRecs, resOrig, resMedia>>

FetchOk ==
    /\ pc = "fetch"
    /\ session' = Append(session, Call("get_author_feed", 0, 0, TRUE))
    /\ \E feed \in PipelineFeeds : feedRaw' = feed
    /\ pc' = "filter"
    /\ pos' = 1
    /\ UNCHANGED <<variant, targetSet, acct, visited, skipped, feedPosts,
                   selected, ordered, numOlder, created, calls, anyFailed,
                   repostRecs, likeRecs, resOrig, resMedia>>

\* `if not feed_posts: return`
SkipNoPosts ==
    /\ pc = "filtered"
    /\ feedPosts = << >>
    /\ pc' = "next_account"
    /\ UNCHANGED <<variant, targetSet, acct, visited, skipped, feedRaw,
                   feedPosts, selected, ordered, pos, numOlder, session,
                   created, calls, anyFailed, repostRecs, likeRecs, resOrig,
                   resMedia>>

StartChoose ==
    /\ pc = "filtered"
    /\ feedPosts # << >>
    /\ pc' = "choose"
    /\ UNCHANGED <<variant, targetSet, acct, visited, skipped, feedRaw,
                   feedPosts, selected, ordered, pos, numOlder, session,
                   created, calls, anyFailed, repostRecs, likeRecs, resOrig,
                   resMedia>>

\* the end of `for feed_post in to_repost_ordered:`
LoopDone ==
    /\ pc = "loop"
    /\ pos > Len(ordered)
    /\ pc' = "next_account"
    /\ UNCHANGED <<variant, targetSet, acct, visited, skipped, feedRaw,
                   feedPosts, selected, ordered, pos, numOlder, session,
                   created, calls, anyFailed, repostRecs, likeRecs, resOrig,
                   resMedia>>

ProcessAccount ==
    \/ SkipNoCredentials \/ LoginOk \/ LoginFails
    \/ FetchFails \/ FetchOk
    \/ TestOriginal \/ TestMedia \/ FilterDone
    \/ SkipNoPosts \/ StartChoose
    \/ Choose \/ OrderStep
    \/ Synchronize
    \/ LoopDone

Init ==
    /\ variant \in Variants
    /\ targetSet \in (IF variant = "grovel" THEN BOOLEAN ELSE {TRUE})
    /\ pc = "main"
    /\ feedRaw = << >>
    /\ feedPosts = << >>
    /\ selected = << >>
    /\ numOlder = NumRandomOlder
    /\ InitCommon

Next ==
    \/ TargetHandleMissing \/ MainStart
    \/ NextAccount \/ MainDone
    \/ ProcessAccount

Spec == Init /\ [][Next]_vars

\* The script is one sequential process: whenever a step is possible the
\* interpreter takes it (every call returns or raises).
FairSpec == Spec /\ WF_vars(Next)

----------------------------------------------------------------------------
(* Claims *)

IndexIn(s, x) == CHOOSE i \in 1..Len(s) : s[i] = x
IsPermutationOf(s, t) ==
    /\ Len(s) = Len(t)
    /\ \E f \in [1..Len(s) -> 1..Len(t)] :
          /\ \A i, j \in 1..Len(s) : i # j => f[i] # f[j]
          /\ \A i \in 1..Len(s) : s[i] = t[f[i]]

\* C1: order_posts_old_to_new returns a permutation of the selected posts
\* sorted by strictly descending index in the candidates, so the candidate
\* with the smallest index is last.
C1_OrderedByDescendingIndex ==
    (pc = "loop" /\ variant = "grovel") =>
        /\ IsPermutationOf(ordered, selected)
        /\ \A i, j \in 1..Len(ordered) :
              i < j => IndexIn(feedPosts, ordered[i]) > IndexIn(feedPosts, ordered[j])
        /\ ordered # << >> =>
              \A x \in Range(selected) :
                 IndexIn(feedPosts, ordered[Len(ordered)]) <= IndexIn(feedPosts, x)

C1_Witness ==
    /\ pc = "loop"
    /\ Len(ordered) = 3
    /\ Len(feedPosts) = 4
    /\ selected[1] = feedPosts[2]
    /\ selected[2] = feedPosts[4]
    /\ selected[3] = feedPosts[1]
    /\ ordered = <<feedPosts[4], feedPosts[2], feedPosts[1]>>

\* C2: in every account run with candidates the last post repost() is
\* called on is the newest candidate, whatever the timestamps of the posts.
C2_NewestIsRepostedLast ==
    (pc = "next_account" /\ feedPosts # << >>) =>
        /\ created # << >>
        /\ created[Len(created)] = feedPosts[1]

\* C3: choose_posts_for_run returns nothing for no candidates; otherwise
\* 1 + min(num_random_older, len - 1) posts, the newest first, the others
\* pairwise distinct members of the older candidates.
C3_SelectionShape ==
    pc = "order" =>
        IF feedPosts = << >> THEN selected = << >>
        ELSE /\ Len(selected) = 1 + Min(numOlder, Len(feedPosts) - 1)
             /\ selected[1] = feedPosts[1]
             /\ \A i \in 2..Len(selected) :
                   /\ \E j \in 2..Len(feedPosts) : selected[i] = feedPosts[j]
                   /\ selected[i] # feedPosts[1]
             /\ NoDup(selected)

C3_Witness ==
    /\ pc = "order"
    /\ Len(feedPosts) = 4
    /\ numOlder = 2
    /\ selected = <<feedPosts[1], feedPosts[4], feedPosts[2]>>

Qualifies(i) ==
    /\ IsOriginal(variant, feedRaw[i], TargetHandle)
    /\ HasMedia(variant, feedRaw[i].post)

\* C4: the filter returns exactly the feed items that are original and carry
\* media, in feed order: nothing added, reordered or dropped.
C4_FilterIsOrderedSubsequence ==
    pc = "filtered" =>
        /\ \A k \in 1..Len(feedPosts) :
              feedPosts[k] \in 1..Len(feedRaw) /\ Qualifies(feedPosts[k])
        /\ \A j, k \in 1..Len(feedPosts) : j < k => feedPosts[j] < feedPosts[k]
        /\ \A i \in 1..Len(feedRaw) : Qualifies(i) => i \in Range(feedPosts)

C4_Witness ==
    /\ pc = "filtered"
    /\ Len(feedRaw) = 3
    /\ feedPosts = <<1, 3>>

\* C5: a feed item with a repost-reason marker, whatever its type tag, is
\* never classified as original and never becomes a candidate.
C5_ReasonMeansNotOriginal ==
    /\ (resOrig.ref > 0 /\ feedRaw[resOrig.ref].reason # NoReason) => ~resOrig.val
    /\ \A k \in 1..Len(feedPosts) : feedRaw[feedPosts[k]].reason = NoReason

\* C6: a feed item whose author handle is present and is not the target's is
\* never classified as original and never becomes a candidate.
C6_OtherAuthorNotOriginal ==
    /\ (resOrig.ref > 0
          /\ feedRaw[resOrig.ref].post.handle \notin {NoHandle, TargetHandle})
        => ~resOrig.val
    /\ \A k \in 1..Len(feedPosts) :
          feedRaw[feedPosts[k]].post.handle \in {NoHandle, TargetHandle}

\* the declared type of an embed, whichever attribute holds it
DeclaredType(e) == StrOr(StrOr(e.py_type, e.u_type), e.d_type)
IsImagesEmbed(e) == e # NoEmbed /\ DeclaredType(e) = TagImagesView /\ e.images > 0
IsVideoEmbed(e) == e # NoEmbed /\ DeclaredType(e) = TagVideoView
IsQuoteWithMedia(e) ==
    /\ e # NoEmbed
    /\ DeclaredType(e) = TagRecordWithMediaView
    /\ IsImagesEmbed(e.media) \/ IsVideoEmbed(e.media)

\* C7: has_media is true for an images embed with a non-empty list, for a
\* video embed, and for a quote-with-media wrapper around either, in every
\* script.
C7_MediaIsRecognized ==
    resMedia.ref > 0 =>
        LET e == feedRaw[resMedia.ref].post.embed
        IN  (IsImagesEmbed(e) \/ IsVideoEmbed(e) \/ IsQuoteWithMedia(e))
               => resMedia.val

\* an embed that plainly carries media: an images list, a video, or a wrapper
\* whose inner media does
CarriesMedia(e) ==
    /\ e # NoEmbed
    /\ \/ e.images > 0
       \/ IsVideoEmbed(e)
       \/ e.media # NoEmbed /\ (e.media.images > 0 \/ IsVideoEmbed(e.media))

\* C8: has_media is false for a post with no embed and for an embed that
\* carries neither a non-empty images list nor a video, whatever its type
\* tag, also inside a quote wrapper.
C8_MediaFailClosed ==
    resMedia.ref > 0 =>
        (~CarriesMedia(feedRaw[resMedia.ref].post.embed) => ~resMedia.val)

\* a synchronize call has returned; its post is ordered[pos - 1] and its
\* calls are in `calls`
SyncReturned ==
    /\ pc \in {"loop", "next_account", "done"}
    /\ ordered # << >>
    /\ pos > 1
SyncedPost == feedRaw[ordered[pos - 1]].post
CallsOf(op) == { i \in 1..Len(calls) : calls[i].op = op }

\* C9: a synchronize call issues exactly one repost(); if the viewer state
\* reports a repost it issues exactly one delete_repost, before the repost(),
\* and otherwise none.
C9_OneDeleteBeforeCreate ==
    SyncReturned =>
        /\ Cardinality(CallsOf("repost")) = 1
        /\ IF SyncedPost.viewer.repost # 0
           THEN /\ Cardinality(CallsOf("delete_repost")) = 1
                /\ \A d \in CallsOf("delete_repost"), r \in CallsOf("repost") : d < r
                /\ \A d \in CallsOf("delete_repost") :
                      calls[d].arg = SyncedPost.viewer.repost
           ELSE CallsOf("delete_repost") = {}

C9_Witness ==
    /\ SyncReturned
    /\ SyncedPost.viewer.repost # 0
    /\ Len(calls) >= 2
    /\ calls[1].op = "delete_repost"
    /\ calls[2].op = "repost"

\* C10: when repost() fails for a post, neither delete_like nor like is issued
\* in that synchronize call and the post's like relation is left as it was.
C10_NoLikeStepAfterFailedRepost ==
    (SyncReturned /\ \E r \in CallsOf("repost") : ~calls[r].ok) =>
        /\ CallsOf("delete_like") = {}
        /\ CallsOf("like") = {}
        /\ likeRecs = ViewerRecs(SyncedPost.viewer.like)

\* C11: when delete_repost of the existing repost fails, the same synchronize
\* call still issues repost() for the same post, after the failed delete.
C11_CreateAfterFailedDelete ==
    SyncReturned =>
        \A d \in CallsOf("delete_repost") :
            ~calls[d].ok =>
                \E r \in CallsOf("repost") :
                    /\ r > d
                    /\ calls[r].ref = calls[d].ref

C11_Witness ==
    /\ SyncReturned
    /\ \E d \in CallsOf("delete_repost"), r \in CallsOf("repost") :
          /\ ~calls[d].ok
          /\ r > d
          /\ calls[r].ref = calls[d].ref

\* C12: in every reachable state the (account, post) pair being synchronized
\* has at most one active repost record and at most one active like record,
\* also when delete or create steps fail.
C12_AtMostOneRelation ==
    /\ Cardinality(repostRecs) <= 1
    /\ Cardinality(likeRecs) <= 1

\* the scripts that add a like to every repost (withLike enabled)
WithLike(v) == v \in {"luana", "naked"}
AllCallsOk == \A i \in 1..Len(calls) : calls[i].ok
RecsBefore(pv) == ViewerRecs(pv.viewer.repost) \cup ViewerRecs(pv.viewer.like)

\* C13: after a synchronize call with likes enabled in which every step
\* succeeded, the pair has exactly one repost record and exactly one like
\* record, and both are newer than every record that existed before the call
\* (a like that existed before is replaced, not kept).
C13_BothRelationsFresh ==
    (SyncReturned /\ WithLike(variant) /\ AllCallsOk) =>
        /\ Cardinality(repostRecs) = 1
        /\ Cardinality(likeRecs) = 1
        /\ \A new \in repostRecs \cup likeRecs, old \in RecsBefore(SyncedPost) :
              new > old

AllAccounts == [i \in 1..NumAccounts |-> i]
\* the account run that has just ended was not cut short by an early return
RanToFilter ==
    /\ pc \in {"next_account", "done"}
    /\ visited # << >>
    /\ acct \notin skipped
\* filter, selection, ordering and one repost() per ordered post were all done
FullPipelineDone ==
    /\ session = <<Call("login", 0, 0, TRUE), Call("get_author_feed", 0, 0, TRUE)>>
    /\ IF feedPosts = << >>
       THEN created = << >>
       ELSE /\ selected \in ChoosePostsForRun(feedPosts, numOlder)
            /\ IsPermutationOf(ordered, selected)
            /\ created = ordered

\* C14: an account without credentials, with a failed login or with a failed
\* feed fetch is skipped and the accounts after it are still run: the run
\* goes on to the next account, ends only after all accounts, and every
\* account that got past the fetch went through the full pipeline.
C14_SkipDoesNotStopLaterAccounts ==
    /\ skipped \subseteq Range(visited)
    /\ (pc = "next_account" /\ Len(visited) < NumAccounts) => ENABLED NextAccount
    /\ pc = "done" => visited = AllAccounts
    /\ RanToFilter => FullPipelineDone

C14_Witness ==
    /\ RanToFilter
    /\ acct = 2
    /\ 1 \in skipped
    /\ Len(created) = 2
    /\ FullPipelineDone

\* C15: when the target handle is not configured the run ends in the fatal
\* state before any account is processed: no account is visited and no login,
\* feed fetch or mutation call is issued.
C15_MissingHandleStopsBeforeAnyAccount ==
    ~targetSet =>
        /\ pc \in {"main", "fatal"}
        /\ visited = << >>
        /\ session = << >>
        /\ calls = << >>
        /\ created = << >>

C15_Witness ==
    /\ pc = "fatal"
    /\ ~targetSet
    /\ visited = << >>

\* C16: with the target handle configured the run always ends in the
\* completed state, having visited every configured account exactly once in
\* list order, whatever login, fetch and mutation failures occurred.
C16_AlwaysCompletes ==
    /\ [](\A i \in 1..Len(visited) : visited[i] = i)
    /\ [](pc = "done" => visited = AllAccounts)
    /\ [](targetSet => pc # "fatal")
    /\ (targetSet => <>[](pc = "done"))

C16_Witness ==
    /\ pc = "done"
    /\ visited = AllAccounts
    /\ 1 \in skipped
    /\ anyFailed

\* C17: a mutation failure on one post never prevents the synchronization of
\* the posts after it: repost() is attempted for every post of the ordered
\* selection, in order, whatever failed on earlier posts.
C17_EveryOrderedPostIsAttempted ==
    /\ pc = "loop" => created = SubSeq(ordered, 1, pos - 1)
    /\ (pc = "loop" /\ pos <= Len(ordered)) => ENABLED SyncStart
    /\ (pc \in {"next_account", "done"} /\ ordered # << >>) => created = ordered

C17_Witness ==
    /\ pc \in {"next_account", "done"}
    /\ Len(ordered) = 2
    /\ created = ordered
    /\ anyFailed
    /\ AllCallsOk

MutationOps == {"delete_repost", "delete_like", "repost", "like"}
SessionCallsOf(op) == { i \in 1..Len(session) : session[i].op = op }

\* C18: no network operation is retried: in one account run login and feed
\* fetch are each issued at most once, each post is synchronized at most
\* once, and in its synchronize call each of delete_repost, delete_like,
\* repost and like is issued at most once, also after a failure.
C18_NoRetry ==
    /\ Cardinality(SessionCallsOf("login")) <= 1
    /\ Cardinality(SessionCallsOf("get_author_feed")) <= 1
    /\ NoDup(created)
    /\ \A op \in MutationOps : Cardinality(CallsOf(op)) <= 1
    /\ \A i \in 1..Len(calls) : calls[i].op \in MutationOps

C18_Witness ==
    /\ SyncReturned
    /\ \E r \in CallsOf("repost") : ~calls[r].ok
    /\ Cardinality(CallsOf("repost")) = 1
    /\ Cardinality(SessionCallsOf("login")) = 1

\* the record that call number i of the log created
RecOfCall(i) == i + 1
FailedLikeSteps ==
    { k \in CallsOf("like") \cup CallsOf("delete_like") : ~calls[k].ok }

\* C19: a failed like step does not undo the repost: when repost() succeeded
\* and delete_like or like fails in the same call, the repost record created
\* in this call stays active, no delete_repost is issued after the repost(),
\* and the loop goes on to the next post.
C19_FailedLikeKeepsRepost ==
    \A r \in CallsOf("repost") :
        (calls[r].ok /\ FailedLikeSteps # {}) =>
            /\ RecOfCall(r) \in repostRecs
            /\ \A d \in CallsOf("delete_repost") : d < r
            /\ (\E k \in FailedLikeSteps : k > r) =>
                  /\ pc \in {"loop", "next_account", "done"}
                  /\ created = SubSeq(ordered, 1, pos - 1)

C19_Witness ==
    /\ SyncReturned
    /\ \E r \in CallsOf("repost"), k \in CallsOf("like") :
          /\ calls[r].ok
          /\ k > r
          /\ ~calls[k].ok
          /\ RecOfCall(r) \in repostRecs

\* C20: every post a mutation call is issued on is one of the run's filtered
\* candidates and is an original post of the target (no reshare, no other
\* author) that carries media.
C20_OnlyOriginalMediaPostsAreTouched ==
    \A ref \in Range(created) \cup { calls[i].ref : i \in 1..Len(calls) } :
        /\ ref \in Range(feedPosts)
        /\ feedRaw[ref].reason = NoReason
        /\ feedRaw[ref].post.handle \in {NoHandle, TargetHandle}
        /\ CarriesMedia(feedRaw[ref].post.embed)

\* the account run that has just ended, ended early: no credentials, failed
\* login, failed fetch, or no candidate left by the filter
EndedEarly ==
    /\ pc \in {"next_account", "done"}
    /\ visited # << >>
    /\ acct \in skipped \/ feedPosts = << >>

\* C21: an account run that ends early issues no mutation call (no repost,
\* delete_repost, like or delete_like) and leaves the account's records as
\* they were.
C21_EarlyEndIssuesNoMutation ==
    /\ EndedEarly =>
          /\ calls = << >>
          /\ created = << >>
          /\ ~anyFailed
          /\ repostRecs = {} /\ likeRecs = {}
    /\ acct \in skipped => (calls = << >> /\ created = << >>)

C21_Witness ==
    /\ EndedEarly
    /\ acct = 2
    /\ 1 \in skipped
    /\ 2 \notin skipped
    /\ feedRaw # << >>
    /\ feedPosts = << >>
    /\ calls = << >>

\* the post the calls of `calls` were issued for
CallRef ==
    IF pc \in {"del_repost", "del_like", "repost", "like"}
    THEN ordered[pos] ELSE ordered[pos - 1]
OkArgs(op) == { calls[i].arg : i \in { j \in CallsOf(op) : calls[j].ok } }

\* C22: every delete_repost (delete_like) call is issued for the post being
\* synchronized with exactly the repost (like) URI its viewer state reports,
\* and a record that is gone was removed by such a call.
C22_DeletesOnlyObservedRelations ==
    calls # << >> =>
        LET pv == feedRaw[CallRef].post
        IN  /\ \A i \in 1..Len(calls) : calls[i].ref = CallRef
            /\ \A d \in CallsOf("delete_repost") :
                  calls[d].arg # 0 /\ calls[d].arg = pv.viewer.repost
            /\ \A d \in CallsOf("delete_like") :
                  calls[d].arg # 0 /\ calls[d].arg = pv.viewer.like
            /\ ViewerRecs(pv.viewer.repost) \ repostRecs \subseteq OkArgs("delete_repost")
            /\ ViewerRecs(pv.viewer.like) \ likeRecs \subseteq OkArgs("delete_like")

C22_Witness ==
    /\ SyncReturned
    /\ SyncedPost.viewer.repost # 0
    /\ SyncedPost.viewer.like = 0
    /\ \E d \in CallsOf("delete_repost") :
          calls[d].ok /\ calls[d].arg = SyncedPost.viewer.repost
    /\ SyncedPost.viewer.repost \notin repostRecs

====
